---- MODULE Spec2Model ----
(***************************************************************************)
(* Model of the realtime relay (realtime/index.js): the RabbitMQ connect   *)
(* loop with exponential backoff, the WebSocket client registry, the       *)
(* broadcaster, the queue consumer callback and the heartbeat timer; of    *)
(* the front-end components and of POST /api/share of the backend.         *)
(*                                                                         *)
(* Specifications:                                                         *)
(*   SpecConnect   - connectToRabbit(), one run per configuration          *)
(*   Spec          - the running relay: accept/close/pong events, client   *)
(*                   messages, queue deliveries and heartbeat ticks        *)
(*   SpecLive      - the running relay over one content of each kind,      *)
(*                   the 'close' event of a socket eventually delivered    *)
(*   SpecLifecycle - module load, start() and the SIGINT handler           *)
(*   SpecFrontend  - a front-end component (Vue, React, AngularJS) and     *)
(*                   ItemController::share                                 *)
(*   SpecOrder     - the running relay with the frames written to every    *)
(*                   socket, in order                                      *)
(*   SpecReconnect - the WebSocket connection of a front-end component:    *)
(*                   connect, reconnect timers, teardown                   *)
(*   SpecItems     - ItemController::getAll over the SQLite cache and the  *)
(*                   public API                                            *)
(***************************************************************************)
EXTENDS Integers, Sequences, FiniteSets, TLC

\* ------------------------------------------------------------------------
\* Bounds of the model
\* ------------------------------------------------------------------------

\* number of distinct WebSocket connections that may exist at the same time
MaxConns == 2

\* largest configured RABBITMQ_RETRY_COUNT explored by SpecConnect
MaxRetriesBound == 7

\* number of clients of the relay followed through startup and shutdown
MaxLifeClients == 2

\* number of broadcast(...) invocations whose frames are followed
MaxBroadcasts == 2

\* longest list of items a front-end is followed to
MaxItems == 3

\* number of messages followed on the queue shared_items
MaxPublished == 1

\* number of GET /api/items requests that may be in progress at a time
MaxRequests == 2

\* largest id of an item of the public API
MaxRemoteId == 2

\* number of new WebSocket(...) calls of a front-end component followed
MaxSockets == 7

\* ------------------------------------------------------------------------
\* Program constants
\* ------------------------------------------------------------------------

\* Math.floor(Math.random() * 300): jitter is an integer of 0 .. 299
JitterRange == 300

\* Math.min(delay * 2, 30000)
DelayCeiling == 30000

\* configured RABBITMQ_RETRY_DELAY_MS values explored (1000 is the default)
InitialDelays == {0, 1, 1000, 16000, 30000, 40000}

Min(a, b) == IF a <= b THEN a ELSE b
Max(a, b) == IF a >= b THEN a ELSE b

RECURSIVE Pow2(_)
Pow2(n) == IF n <= 0 THEN 1 ELSE 2 * Pow2(n - 1)

\* ------------------------------------------------------------------------
\* Text and JSON.  A text is a sequence of tokens; a token stands for a
\* lexical unit of the text (punctuation, a number, a quoted string, white
\* space, bytes that are no JSON at all).  All tokens are records of the
\* same shape.
\* ------------------------------------------------------------------------

Tok(k, v, n, x) == [k |-> k, v |-> v, n |-> n, x |-> x]

LB        == Tok("{", "", 0, <<>>)
RB        == Tok("}", "", 0, <<>>)
Colon     == Tok(":", "", 0, <<>>)
Comma     == Tok(",", "", 0, <<>>)
WS        == Tok("ws", " ", 0, <<>>)
NullTok   == Tok("null", "", 0, <<>>)
NumTok(n) == Tok("num", "", n, <<>>)
\* a quoted string literal "s"
StrTok(s) == Tok("str", s, 0, <<>>)
\* a quoted string literal whose characters are the (escaped) text x
TxtTok(x) == Tok("txt", "", 0, x)
\* characters that belong to no JSON token
Junk(s)   == Tok("junk", s, 0, <<>>)
\* a byte that is not valid UTF-8
BadByte   == Tok("bad", "", 0, <<>>)
\* U+FFFD, what the decoder puts in the place of an invalid byte
ReplacementChar == Junk("U+FFFD")

\* JSON values, all records of the same shape
JV(t, n, s, x, kv) == [t |-> t, n |-> n, s |-> s, x |-> x, kv |-> kv]
JNull    == JV("null", 0, "", <<>>, <<>>)
JNum(n)  == JV("num", n, "", <<>>, <<>>)
JStr(s)  == JV("str", 0, s, <<>>, <<>>)
JTxt(x)  == JV("txt", 0, "", x, <<>>)
\* an object: its members in insertion order, each [k |-> key, v |-> value]
JObj(kv) == JV("obj", 0, "", <<>>, kv)

\* Buffer.toString('utf8'): invalid bytes are replaced, the rest is kept
Utf8ToString(bytes) ==
  [i \in 1..Len(bytes) |-> IF bytes[i].k = "bad" THEN ReplacementChar ELSE bytes[i]]

RECURSIVE SkipWs(_)
SkipWs(s) == IF s # <<>> /\ Head(s).k = "ws" THEN SkipWs(Tail(s)) ELSE s

ParseFail == [ok |-> FALSE, val |-> JNull, rest |-> <<>>]
ParseOk(v, rest) == [ok |-> TRUE, val |-> v, rest |-> rest]

\* obj[key] = v on an object under construction: a repeated key keeps its
\* position and takes the last value
RECURSIVE SetMember(_, _, _)
SetMember(kv, key, v) ==
  IF kv = <<>> THEN <<[k |-> key, v |-> v]>>
  ELSE IF Head(kv).k = key THEN <<[k |-> key, v |-> v]>> \o Tail(kv)
  ELSE <<Head(kv)>> \o SetMember(Tail(kv), key, v)

RECURSIVE ParseValue(_), ParseMembers(_, _)
ParseValue(s0) ==
  LET s == SkipWs(s0) IN
  IF s = <<>> THEN ParseFail
  ELSE LET h == Head(s) IN
       CASE h.k = "num"  -> ParseOk(JNum(h.n), Tail(s))
         [] h.k = "str"  -> ParseOk(JStr(h.v), Tail(s))
         [] h.k = "txt"  -> ParseOk(JTxt(h.x), Tail(s))
         [] h.k = "null" -> ParseOk(JNull, Tail(s))
         [] h.k = "{"    -> LET r == SkipWs(Tail(s)) IN
                            IF r # <<>> /\ Head(r).k = "}"
                            THEN ParseOk(JObj(<<>>), Tail(r))
                            ELSE ParseMembers(r, <<>>)
         [] OTHER        -> ParseFail

ParseMembers(s0, acc) ==
  LET s == SkipWs(s0) IN
  IF s = <<>> \/ Head(s).k # "str" THEN ParseFail
  ELSE LET c == SkipWs(Tail(s)) IN
       IF c = <<>> \/ Head(c).k # ":" THEN ParseFail
       ELSE LET pv == ParseValue(Tail(c)) IN
            IF ~pv.ok THEN ParseFail
            ELSE LET acc2 == SetMember(acc, Head(s).v, pv.val)
                     d    == SkipWs(pv.rest) IN
                 IF d = <<>> THEN ParseFail
                 ELSE IF Head(d).k = "}" THEN ParseOk(JObj(acc2), Tail(d))
                 ELSE IF Head(d).k = "," THEN ParseMembers(Tail(d), acc2)
                 ELSE ParseFail

\* JSON.parse(text): ok = FALSE stands for the SyntaxError it throws
JSONParse(text) ==
  LET r == ParseValue(text) IN
  IF r.ok /\ SkipWs(r.rest) = <<>>
  THEN [ok |-> TRUE, val |-> r.val]
  ELSE [ok |-> FALSE, val |-> JNull]

\* JSON.stringify(value): the compact text of the value
RECURSIVE JSONStringify(_), StringifyMembers(_, _)
JSONStringify(val) ==
  CASE val.t = "num"  -> <<NumTok(val.n)>>
    [] val.t = "str"  -> <<StrTok(val.s)>>
    [] val.t = "txt"  -> <<TxtTok(val.x)>>
    [] val.t = "obj"  -> <<LB>> \o StringifyMembers(val.kv, 1) \o <<RB>>
    [] OTHER          -> <<NullTok>>

StringifyMembers(kv, i) ==
  IF i > Len(kv) THEN <<>>
  ELSE (IF i > 1 THEN <<Comma>> ELSE <<>>)
       \o <<StrTok(kv[i].k), Colon>> \o JSONStringify(kv[i].v)
       \o StringifyMembers(kv, i + 1)

\* undefined: what reading a missing property gives
JUndef == JV("undef", 0, "", <<>>, <<>>)

\* key in obj
Has(v, key) == v.t = "obj" /\ \E i \in 1..Len(v.kv) : v.kv[i].k = key

\* v[key] / v.key
Get(v, key) ==
  IF Has(v, key)
  THEN v.kv[CHOOSE i \in 1..Len(v.kv) : v.kv[i].k = key].v
  ELSE JUndef

\* the truth value of v in a condition
Truthy(v) ==
  CASE v.t = "obj" -> TRUE
    [] v.t = "num" -> v.n # 0
    [] v.t = "str" -> v.s # ""
    [] v.t = "txt" -> v.x # <<>>
    [] OTHER       -> FALSE

\* a === b for values that are no objects (objects compare by identity)
StrictEq(a, b) == a.t # "obj" /\ b.t # "obj" /\ a = b

NaN == [nan |-> TRUE, n |-> 0]

\* the strings of the model that read as a number
StringToNumber(str) ==
  CASE str = "7" -> [nan |-> FALSE, n |-> 7]
    [] str = "3" -> [nan |-> FALSE, n |-> 3]
    [] str = ""  -> [nan |-> FALSE, n |-> 0]
    [] OTHER     -> NaN

\* Number(v)
ToNumber(v) ==
  CASE v.t = "num"  -> [nan |-> FALSE, n |-> v.n]
    [] v.t = "str"  -> StringToNumber(v.s)
    [] v.t = "null" -> [nan |-> FALSE, n |-> 0]
    [] OTHER        -> NaN

\* Number(a) === Number(b): NaN equals nothing
NumberEq(a, b) ==
  LET x == ToNumber(a)
      y == ToNumber(b) IN
  ~x.nan /\ ~y.nan /\ x.n = y.n

\* ------------------------------------------------------------------------
\* Messages used as inputs
\* ------------------------------------------------------------------------

\* {"action":"share_item","item":{"id":<id>}}
ShareItemText(id) ==
  <<LB, StrTok("action"), Colon, StrTok("share_item"), Comma,
    StrTok("item"), Colon, LB, StrTok("id"), Colon, NumTok(id), RB, RB>>

\* the same envelope written with white space
ShareItemSpaced(id) ==
  <<LB, WS, StrTok("action"), Colon, WS, StrTok("share_item"), Comma, WS,
    StrTok("item"), Colon, LB, StrTok("id"), Colon, NumTok(id), RB, WS, RB>>

NotJsonText    == <<Junk("not-json")>>
TruncatedText  == <<LB, StrTok("action"), Colon>>
BadUtf8Text    == <<BadByte, NumTok(7)>>

Contents ==
  {ShareItemText(7), ShareItemSpaced(3), NotJsonText, TruncatedText, BadUtf8Text}

\* ------------------------------------------------------------------------
\* State
\* ------------------------------------------------------------------------

VARIABLES
  \* connectToRabbit()
  maxRetries,    \* MAX_RETRIES
  initialDelay,  \* INITIAL_DELAY_MS
  attempt,       \* let attempt
  delay,         \* let delay
  jitter,        \* const jitter of the last failed attempt
  waitMs,        \* const waitMs of the last failed attempt
  sleeps,        \* number of sleep(waitMs) calls made so far
  cpc,           \* "try" | "sleeping" | "connected" | "failed" (err thrown)
  \* the running relay
  wsClients,     \* the Set wsClients, in insertion order
  readyState,    \* ws.readyState of every connection
  isAlive,       \* ws.isAlive of every connection
  last,          \* what the handler that ran last did (history)
  awaitingPong,  \* connections pinged by the heartbeat with no pong since
  \* the frames written to the sockets
  bcount,        \* number of broadcast(...) invocations so far
  outbox,        \* per connection: the broadcasts sent on its socket, in order
  joined,        \* per connection: bcount when the socket was accepted
  \* the life of the process: module load, start(), SIGINT
  lpc,           \* where start() or its SIGINT handler stands
  lifeLog,       \* the steps of start() and of the SIGINT handler, in order,
                 \* with the first client accepted and the SIGINT received
  exitCode,      \* NotExited, or the exit status of the process
  lclients,      \* number of clients in wsClients
  \* one front-end component and the backend endpoint POST /api/share
  framework,     \* "vue", "react" or "angular"
  items,         \* the list shown, head first
  selectedId,    \* id of the item shared last
  wsOpen,        \* wsConnected and the socket is OPEN
  published,     \* message bodies published to the queue shared_items
  feLast,        \* what the front-end handler that ran last did (history)
  \* the WebSocket connection of a front-end component
  app,           \* "vue", "react" or "angular"
  mounted,       \* "setup", "mounted" or "unmounted"
  sockState,     \* readyState of every WebSocket constructed so far
  nsock,         \* number of new WebSocket(...) calls so far
  cur,           \* the socket held in ws / wsRef.current, 0 for null
  wsConnected,   \* the flag wsConnected
  reconnectDelay, \* let reconnectDelay / reconnectDelayRef.current
  timers,        \* delays of the setTimeout calls still pending
  fails,         \* reconnects scheduled since a socket opened last (history)
  tornAt,        \* nsock at the teardown (history)
  rcLast,        \* what the handler that ran last did (history)
  \* GET /api/items
  cache,         \* the rows of the table items
  reqs,          \* the requests in progress
  done,          \* status and rows of the request answered last (history)
  itLast         \* what the step of getAll that ran last did (history)

connectVars == <<maxRetries, initialDelay, attempt, delay, jitter, waitMs, sleeps, cpc>>
relayVars   == <<wsClients, readyState, isAlive, last, awaitingPong>>
orderVars   == <<bcount, outbox, joined>>
lifeVars    == <<lpc, lifeLog, exitCode, lclients>>
feVars      == <<framework, items, selectedId, wsOpen, published, feLast>>
rcVars      == <<app, mounted, sockState, nsock, cur, wsConnected,
                 reconnectDelay, timers, fails, tornAt, rcLast>>
itemVars    == <<cache, reqs, done, itLast>>
vars        == <<connectVars, relayVars, orderVars, lifeVars, feVars, rcVars,
                 itemVars>>

\* what an action of one part leaves unchanged
notConnect  == <<relayVars, orderVars, lifeVars, feVars, rcVars,
                 itemVars>>
notRelay    == <<connectVars, orderVars, lifeVars, feVars, rcVars,
                 itemVars>>
notOrder    == <<connectVars, lifeVars, feVars, rcVars,
                 itemVars>>
notLife     == <<connectVars, relayVars, orderVars, feVars, rcVars,
                 itemVars>>
notFe       == <<connectVars, relayVars, orderVars, lifeVars, rcVars,
                 itemVars>>
notRc       == <<connectVars, relayVars, orderVars, lifeVars, feVars,
                 itemVars>>
notItems    == <<connectVars, relayVars, orderVars, lifeVars, feVars, rcVars>>

Conns == 1..MaxConns

\* the elements of a sequence
Range(s) == {s[i] : i \in 1..Len(s)}

RemoveNothing(s, c) == s

\* Set.prototype.delete on the insertion-ordered set
RECURSIVE Remove(_, _)
Remove(s, c) ==
  IF s = <<>> THEN <<>>
  ELSE IF Head(s) = c THEN Tail(s)
  ELSE <<Head(s)>> \o Remove(Tail(s), c)

\* the record of a handler run; every handler fills in the fields it uses
Rec(op) ==
  [op |-> op, conn |-> 0, snapshot |-> <<>>, text |-> <<>>, parsed |-> FALSE,
   called |-> FALSE, msg |-> <<>>, failing |-> {},
   sent |-> [c \in Conns |-> 0], threw |-> FALSE, escaped |-> FALSE,
   ackCalls |-> 0, nackCalls |-> 0, acked |-> FALSE, nacked |-> FALSE,
   requeue |-> FALSE, deadBefore |-> {}, terminated |-> {}, pinged |-> {},
   events |-> <<>>]

\* an entry of last.events: a call made by the handler, in program order;
\* e is "send" (c the connection), "ack" or "nack" (c = 0)
Event(e, c) == [e |-> e, c |-> c]

\* ------------------------------------------------------------------------
\* connectToRabbit (SpecConnect)
\* ------------------------------------------------------------------------

InitConnectVars ==
  /\ maxRetries \in 0..MaxRetriesBound
  /\ initialDelay \in InitialDelays
  /\ attempt = 0
  /\ delay = initialDelay
  /\ jitter = 0
  /\ waitMs = 0
  /\ sleeps = 0
  /\ cpc = "try"

\* the state of connectToRabbit once start() got its connection at the first
\* attempt under the default configuration
ConnectedVars ==
  /\ maxRetries = 30
  /\ initialDelay = 1000
  /\ attempt = 1
  /\ delay = 1000
  /\ jitter = 0
  /\ waitMs = 0
  /\ sleeps = 0
  /\ cpc = "connected"

InitRelayVars ==
  /\ wsClients = <<>>
  /\ readyState = [c \in Conns |-> "CLOSED"]
  /\ isAlive = [c \in Conns |-> FALSE]
  /\ last = Rec("init")
  /\ awaitingPong = {}
  /\ bcount = 0
  /\ outbox = [c \in Conns |-> <<>>]
  /\ joined = [c \in Conns |-> 0]

\* the process before exit
NotExited == -1

\* module load is done (wss listens, its 'connection' handler is set) and
\* start() was called
InitLifeVars ==
  /\ lpc = "connecting"
  /\ lifeLog = <<>>
  /\ exitCode = NotExited
  /\ lclients = 0

FeRec(op) ==
  [op |-> op, raw |-> <<>>, before |-> <<>>, shared |-> JUndef,
   handled |-> FALSE, via |-> "", item |-> JUndef, status |-> 0,
   brokerUp |-> FALSE, publishedBefore |-> 0,
   body |-> JUndef, closeThrows |-> FALSE, queue |-> "", durable |-> FALSE,
   deliveryMode |-> 0]

Requests == 1..MaxRequests

\* a request: st is "idle" or "fetching" (waiting for the public API);
\* refresh is the query parameter; alone says that no other request was in
\* progress since it began
IdleReq == [st |-> "idle", refresh |-> "absent", alone |-> FALSE]

\* the record of a step of getAll: cacheBefore holds the rows found by the
\* first SELECT, fetched the ids in the answer of the public API, prevStatus
\* and prevCount the status and the number of rows of the answer given last
\* before the request began
ItRec(op) ==
  [op |-> op, q |-> 0, refresh |-> "absent", status |-> 0, rows |-> <<>>,
   contacted |-> FALSE, fetched |-> {}, cacheBefore |-> {},
   alone |-> FALSE, prevStatus |-> 0, prevCount |-> 0]

\* the table items is empty and no request is in progress
IdleItemVars ==
  /\ cache = {}
  /\ reqs = [q \in Requests |-> IdleReq]
  /\ done = [status |-> 0, count |-> 0]
  /\ itLast = ItRec("init")

\* let reconnectDelay = 1000
InitialReconnectDelay == 1000

\* MAX_RECONNECT_DELAY / MAX_RECONNECT
MaxReconnectDelay == 30000

Sockets == 1..MaxSockets

RcRec(op) == [op |-> op, sock |-> 0, timersBefore |-> 0, waited |-> 0, k |-> 0]

\* the component before connectWebSocket() is called for the first time
SetupRcVars ==
  /\ mounted = "setup"
  /\ sockState = [sk \in Sockets |-> "NONE"]
  /\ nsock = 0
  /\ cur = 0
  /\ wsConnected = FALSE
  /\ reconnectDelay = InitialReconnectDelay
  /\ timers = <<>>
  /\ fails = 0
  /\ tornAt = 0
  /\ rcLast = RcRec("init")

\* the connection part of a state of the other specifications
IdleRcVars == app = "vue" /\ SetupRcVars

InitRcVars == app \in {"vue", "react", "angular"} /\ SetupRcVars

\* the front-end part of a state of the other specifications
IdleFeVars ==
  /\ framework = "vue"
  /\ items = <<>>
  /\ selectedId = JNull
  /\ wsOpen = FALSE
  /\ published = <<>>
  /\ feLast = FeRec("init")

IsLastOffByOne(att, max) == att > max

\* const isLast = attempt >= MAX_RETRIES
IsLast(att, max) == att >= max

\* delay = Math.min(delay * 2, 30000)
NextDelay(d) == Min(d * 2, DelayCeiling)

\* amqp.connect / createChannel resolve: the loop returns the connection
AttemptSucceeds ==
  /\ cpc = "try"
  /\ attempt' = attempt + 1
  /\ cpc' = "connected"
  /\ UNCHANGED <<maxRetries, initialDelay, delay, jitter, waitMs, sleeps>>
  /\ UNCHANGED notConnect

\* amqp.connect / createChannel reject: the catch block either rethrows or
\* computes the wait and starts to sleep
AttemptFails ==
  /\ cpc = "try"
  /\ attempt' = attempt + 1
  /\ IF IsLast(attempt', maxRetries)
     THEN /\ cpc' = "failed"
          /\ UNCHANGED <<jitter, waitMs, sleeps>>
     ELSE /\ \E j \in 0..(JitterRange - 1) : jitter' = j
          /\ waitMs' = delay + jitter'
          /\ sleeps' = sleeps + 1
          /\ cpc' = "sleeping"
  /\ UNCHANGED <<maxRetries, initialDelay, delay>>
  /\ UNCHANGED notConnect

\* sleep(waitMs) resolves: the delay is doubled and the loop goes round
SleepDone ==
  /\ cpc = "sleeping"
  /\ delay' = NextDelay(delay)
  /\ cpc' = "try"
  /\ UNCHANGED <<maxRetries, initialDelay, attempt, jitter, waitMs, sleeps>>
  /\ UNCHANGED notConnect

InitConnect == IdleItemVars /\ IdleRcVars /\ InitConnectVars /\ InitRelayVars /\ InitLifeVars /\ IdleFeVars

NextConnect == AttemptSucceeds \/ AttemptFails \/ SleepDone

SpecConnect == InitConnect /\ [][NextConnect]_vars

\* ------------------------------------------------------------------------
\* The running relay (Spec)
\* ------------------------------------------------------------------------

SendToAll(rs, c) == TRUE

\* if (client.readyState === WebSocket.OPEN)
ShouldSend(rs, c) == rs[c] = "OPEN"

\* The loop of broadcast(msg) from position i of the snapshot on.  failing is
\* the set of connections whose send() throws; a throw ends the loop, there
\* is no try/catch in broadcast.  sent counts the sends that returned, calls
\* lists the connections send() was called on, in the order of the calls.
RECURSIVE BroadcastFrom(_, _, _, _, _, _)
BroadcastFrom(snap, i, rs, failing, sent, calls) ==
  IF i > Len(snap) THEN [sent |-> sent, threw |-> FALSE, calls |-> calls]
  ELSE LET client == snap[i] IN
       IF ShouldSend(rs, client)
       THEN IF client \in failing
            THEN [sent |-> sent, threw |-> TRUE, calls |-> Append(calls, client)]
            ELSE BroadcastFrom(snap, i + 1, rs, failing,
                               [sent EXCEPT ![client] = @ + 1],
                               Append(calls, client))
       ELSE BroadcastFrom(snap, i + 1, rs, failing, sent, calls)

BroadcastSkipFirst(snap, rs, failing) ==
  BroadcastFrom(snap, 2, rs, failing, [c \in Conns |-> 0], <<>>)

\* broadcast(msg): for (const client of Array.from(wsClients)) ...
Broadcast(snap, rs, failing) ==
  BroadcastFrom(snap, 1, rs, failing, [c \in Conns |-> 0], <<>>)

\* the send() calls of a broadcast as events
SendEvents(calls) == [i \in 1..Len(calls) |-> Event("send", calls[i])]

AckFirstEvents(calls, ackCalled, nackCalled) ==
  (IF ackCalled THEN <<Event("ack", 0)>> ELSE <<>>)
  \o SendEvents(calls)
  \o (IF nackCalled THEN <<Event("nack", 0)>> ELSE <<>>)

\* the calls of the consumer callback in program order: broadcast(...), then
\* channel.ack(msg), then (in the catch block) channel.nack(msg, false, false)
ConsumerEvents(calls, ackCalled, nackCalled) ==
  SendEvents(calls)
  \o (IF ackCalled THEN <<Event("ack", 0)>> ELSE <<>>)
  \o (IF nackCalled THEN <<Event("nack", 0)>> ELSE <<>>)

NackOnBroadcastOnly(broadcastThrew, ackThrew) == broadcastThrew

\* the catch block of the consumer callback runs when broadcast or
\* channel.ack threw (a SyntaxError of JSON.parse never gets there)
NackReached(broadcastThrew, ackThrew) == broadcastThrew \/ ackThrew

ParseClientMessageTolerant(message) ==
  LET p == JSONParse(Utf8ToString(message)) IN
  IF p.ok THEN p
  ELSE [ok |-> TRUE, val |-> JObj(<<[k |-> "raw", v |-> JTxt(Utf8ToString(message))]>>)]

\* const data = JSON.parse(message)
ParseClientMessage(message) == JSONParse(Utf8ToString(message))

RebroadcastWrapped(data) ==
  JSONStringify(JObj(<<[k |-> "source", v |-> JStr("realtime")], [k |-> "payload", v |-> data]>>))

\* broadcast(JSON.stringify(data))
RebroadcastText(data) == JSONStringify(data)

Unwrapped(payload) == payload

\* { source: 'realtime', payload }
WrapRealtime(payload) ==
  JObj(<<[k |-> "source", v |-> JStr("realtime")], [k |-> "payload", v |-> payload]>>)

PayloadRawUnkeyed(content) ==
  LET p == JSONParse(content) IN IF p.ok THEN p.val ELSE JTxt(content)

\* try { payload = JSON.parse(content); } catch (e) { payload = { raw: content }; }
QueuePayload(content) ==
  LET p == JSONParse(content) IN
  IF p.ok THEN p.val ELSE JObj(<<[k |-> "raw", v |-> JTxt(content)]>>)

\* What the handlers compute from the content of a message alone, tabulated
\* over the contents explored (each entry is evaluated once).
\*   ws.on('message'): JSON.parse(message), JSON.stringify(data)
ClientParseOf ==
  [bytes \in Contents |-> ParseClientMessage(bytes)]

ClientTextOf ==
  [bytes \in Contents |->
     IF ClientParseOf[bytes].ok THEN RebroadcastText(ClientParseOf[bytes].val)
     ELSE <<>>]

\*   consume callback: msg.content.toString(), JSON.parse or { raw },
\*   JSON.stringify({ source: 'realtime', payload })
QueueParsedOf ==
  [bytes \in Contents |-> JSONParse(Utf8ToString(bytes)).ok]

QueueMsgOf ==
  [bytes \in Contents |->
     JSONStringify(WrapRealtime(QueuePayload(Utf8ToString(bytes))))]

\* wss.on('connection'): a new socket is flagged alive and registered
OnConnection(c) ==
  /\ readyState[c] = "CLOSED"
  /\ c \notin Range(wsClients)
  /\ readyState' = [readyState EXCEPT ![c] = "OPEN"]
  /\ isAlive' = [isAlive EXCEPT ![c] = TRUE]
  /\ wsClients' = Append(wsClients, c)
  /\ last' = [Rec("connect") EXCEPT !.conn = c]
  /\ awaitingPong' = awaitingPong \ {c}

Connect(c) == OnConnection(c) /\ UNCHANGED notRelay

\* the peer starts to close (close frame or end of the socket): the socket
\* leaves OPEN, its 'close' event is still to come
OnPeerClose(c) ==
  /\ readyState[c] = "OPEN"
  /\ readyState' = [readyState EXCEPT ![c] = "CLOSING"]
  /\ last' = [Rec("peerclose") EXCEPT !.conn = c]
  /\ UNCHANGED <<wsClients, isAlive, awaitingPong>>

PeerClose(c) == OnPeerClose(c) /\ UNCHANGED notRelay

\* ws.on('close'): the socket is CLOSED and deleted from wsClients
OnClose(c) ==
  /\ readyState[c] = "CLOSING"
  /\ readyState' = [readyState EXCEPT ![c] = "CLOSED"]
  /\ isAlive' = [isAlive EXCEPT ![c] = FALSE]
  /\ wsClients' = Remove(wsClients, c)
  /\ last' = [Rec("close") EXCEPT !.conn = c]
  /\ awaitingPong' = awaitingPong \ {c}

CloseEvent(c) == OnClose(c) /\ UNCHANGED notRelay

\* a 'pong' that leaves the flag as it is
OnPongLost(c) ==
  /\ readyState[c] = "OPEN"
  /\ last' = [Rec("pong") EXCEPT !.conn = c]
  /\ awaitingPong' = awaitingPong \ {c}
  /\ UNCHANGED <<wsClients, readyState, isAlive>>

\* ws.on('pong', () => (ws.isAlive = true))
OnPong(c) ==
  /\ readyState[c] = "OPEN"
  /\ isAlive' = [isAlive EXCEPT ![c] = TRUE]
  /\ last' = [Rec("pong") EXCEPT !.conn = c]
  /\ awaitingPong' = awaitingPong \ {c}
  /\ UNCHANGED <<wsClients, readyState>>

Pong(c) == OnPong(c) /\ UNCHANGED notRelay

\* ws.on('message'): parse, stringify again and broadcast; the catch block
\* takes a SyntaxError of JSON.parse and an exception of broadcast alike
OnMessage(c, bytes, failing) ==
  /\ readyState[c] = "OPEN"
  /\ LET p == ClientParseOf[bytes]
         b == Broadcast(wsClients, readyState, failing)
     IN
     /\ (p.ok \/ failing = {})
     /\ last' = IF p.ok
                THEN [Rec("message") EXCEPT
                        !.conn = c, !.snapshot = wsClients, !.text = bytes,
                        !.parsed = TRUE, !.called = TRUE,
                        !.msg = ClientTextOf[bytes], !.failing = failing,
                        !.sent = b.sent, !.threw = b.threw,
                        !.events = SendEvents(b.calls)]
                ELSE [Rec("message") EXCEPT
                        !.conn = c, !.snapshot = wsClients, !.text = bytes]
  /\ UNCHANGED <<wsClients, readyState, isAlive, awaitingPong>>

ClientMessage(c, bytes, failing) == OnMessage(c, bytes, failing) /\ UNCHANGED notRelay

\* the callback of channel.consume for one delivered message.  The inputs
\* are the content, the connections whose send() throws, and whether
\* channel.ack / channel.nack throw when they are called.
OnQueueMessage(bytes, failing, ackThrows, nackThrows) ==
  /\ LET msg         == QueueMsgOf[bytes]
         b           == Broadcast(wsClients, readyState, failing)
         ackCalled   == ~b.threw
         nackCalled  == NackReached(b.threw, ackCalled /\ ackThrows)
     IN
     /\ (ackCalled \/ ~ackThrows)
     /\ (nackCalled \/ ~nackThrows)
     /\ last' = [Rec("queue") EXCEPT
                   !.snapshot = wsClients, !.text = bytes,
                   !.parsed = QueueParsedOf[bytes], !.called = TRUE,
                   !.msg = msg, !.failing = failing,
                   !.sent = b.sent, !.threw = b.threw,
                   !.ackCalls = IF ackCalled THEN 1 ELSE 0,
                   !.acked = ackCalled /\ ~ackThrows,
                   !.nackCalls = IF nackCalled THEN 1 ELSE 0,
                   !.nacked = nackCalled /\ ~nackThrows,
                   !.requeue = FALSE,
                   !.events = ConsumerEvents(b.calls, ackCalled, nackCalled)]
  /\ UNCHANGED <<wsClients, readyState, isAlive, awaitingPong>>

QueueDeliver(bytes, failing, ackThrows, nackThrows) ==
  OnQueueMessage(bytes, failing, ackThrows, nackThrows) /\ UNCHANGED notRelay

\* The loop of the heartbeat callback from position i of the snapshot on:
\*   if (!ws.isAlive) return ws.terminate();
\*   ws.isAlive = false; ws.ping(() => {});
\* The return leaves the callback, so the loop ends at the first connection
\* found dead.  terminate() destroys the socket: it is CLOSING until its
\* 'close' event runs.
RECURSIVE HeartbeatFrom(_, _, _, _, _, _)
HeartbeatFrom(snap, i, rs, alive, terminated, pinged) ==
  IF i > Len(snap)
  THEN [rs |-> rs, alive |-> alive, terminated |-> terminated, pinged |-> pinged]
  ELSE LET ws == snap[i] IN
       IF ~alive[ws]
       THEN [rs |-> [rs EXCEPT ![ws] = "CLOSING"], alive |-> alive,
             terminated |-> terminated \cup {ws}, pinged |-> pinged]
       ELSE HeartbeatFrom(snap, i + 1, rs, [alive EXCEPT ![ws] = FALSE],
                          terminated, pinged \cup {ws})

\* one run of the setInterval callback
OnInterval ==
  LET h == HeartbeatFrom(wsClients, 1, readyState, isAlive, {}, {}) IN
  /\ readyState' = h.rs
  /\ isAlive' = h.alive
  /\ last' = [Rec("tick") EXCEPT
                !.snapshot = wsClients,
                !.deadBefore = {c \in Range(wsClients) : ~isAlive[c]},
                !.terminated = h.terminated, !.pinged = h.pinged]
  /\ awaitingPong' = awaitingPong \cup h.pinged
  /\ UNCHANGED wsClients

Tick == OnInterval /\ UNCHANGED notRelay

Init == IdleItemVars /\ IdleRcVars /\ ConnectedVars /\ InitRelayVars /\ InitLifeVars /\ IdleFeVars

\* The send() failures a handler run may meet.  broadcast stops at the first
\* send() that throws, so a run is determined by the first connection whose
\* send() throws: no failure, or one OPEN connection of the registry.
SendFailures ==
  {{}} \cup {{c} : c \in {d \in Range(wsClients) : readyState[d] = "OPEN"}}

Next ==
  \/ \E c \in Conns : Connect(c)
  \/ \E c \in Conns : PeerClose(c)
  \/ \E c \in Conns : CloseEvent(c)
  \/ \E c \in Conns : Pong(c)
  \/ \E c \in Conns, bytes \in Contents, failing \in SendFailures :
       ClientMessage(c, bytes, failing)
  \/ \E bytes \in Contents, failing \in SendFailures, ackThrows, nackThrows \in BOOLEAN :
       QueueDeliver(bytes, failing, ackThrows, nackThrows)
  \/ Tick

Spec == Init /\ [][Next]_vars

\* The 'close' event of a socket that left OPEN (close handshake, end of the
\* socket, terminate()) is emitted by the event loop: it is not postponed
\* for ever.
\* The registry does not depend on what a message says beyond whether it
\* parses: the runs checked for liveness take one content of each kind.
LiveContents == {ShareItemText(7), NotJsonText}

NextLive ==
  \/ \E c \in Conns : Connect(c)
  \/ \E c \in Conns : PeerClose(c)
  \/ \E c \in Conns : CloseEvent(c)
  \/ \E c \in Conns : Pong(c)
  \/ \E c \in Conns, bytes \in LiveContents, failing \in SendFailures :
       ClientMessage(c, bytes, failing)
  \/ \E bytes \in LiveContents, failing \in SendFailures, ackThrows, nackThrows \in BOOLEAN :
       QueueDeliver(bytes, failing, ackThrows, nackThrows)
  \/ Tick

SpecLive ==
  /\ Init
  /\ [][NextLive]_vars
  /\ \A c \in Conns : WF_vars(CloseEvent(c))

\* ------------------------------------------------------------------------
\* The frames of the broadcasts on the sockets.  Broadcasts are numbered in
\* the order of their invocation; outbox[c] lists the broadcasts whose
\* send() on the socket of c returned, in the order of the send() calls,
\* which is the order in which the peer receives them.
\* ------------------------------------------------------------------------

EnqueueFront(q, n) == <<n>> \o q

\* client.send(msg): the frame goes behind the frames already written
Enqueue(q, n) == Append(q, n)

\* the frames written by the handler that just ran (last')
RecordSends ==
  /\ bcount' = IF last'.called THEN bcount + 1 ELSE bcount
  /\ outbox' = [d \in Conns |->
                  IF last'.called /\ last'.sent[d] > 0
                  THEN Enqueue(outbox[d], bcount + 1)
                  ELSE outbox[d]]
  /\ UNCHANGED joined

\* a relay that keeps the broadcasts and writes them to a new socket
OrdConnectReplay(c) ==
  /\ OnConnection(c)
  /\ outbox' = [outbox EXCEPT ![c] = [n \in 1..bcount |-> n]]
  /\ joined' = [joined EXCEPT ![c] = bcount]
  /\ UNCHANGED <<bcount, notOrder>>

\* a new socket: nothing was written to it
OrdConnect(c) ==
  /\ OnConnection(c)
  /\ outbox' = [outbox EXCEPT ![c] = <<>>]
  /\ joined' = [joined EXCEPT ![c] = bcount]
  /\ UNCHANGED <<bcount, notOrder>>

OrdPeerClose(c) == OnPeerClose(c) /\ UNCHANGED <<orderVars, notOrder>>

OrdCloseEvent(c) == OnClose(c) /\ UNCHANGED <<orderVars, notOrder>>

OrdClientMessage(c, bytes, failing) ==
  /\ bcount < MaxBroadcasts
  /\ OnMessage(c, bytes, failing)
  /\ RecordSends
  /\ UNCHANGED notOrder

OrdQueueDeliver(bytes, failing, ackThrows, nackThrows) ==
  /\ bcount < MaxBroadcasts
  /\ OnQueueMessage(bytes, failing, ackThrows, nackThrows)
  /\ RecordSends
  /\ UNCHANGED notOrder

\* The handlers that accept and close connections and the two that invoke
\* broadcast.  The heartbeat invokes no broadcast; what its terminate() does
\* to a socket (OPEN to CLOSING) is what OrdPeerClose does.  A nack that
\* throws changes nothing for the frames and is left out.
NextOrder ==
  \/ \E c \in Conns : OrdConnect(c)
  \/ \E c \in Conns : OrdPeerClose(c)
  \/ \E c \in Conns : OrdCloseEvent(c)
  \/ \E c \in Conns, bytes \in LiveContents, failing \in SendFailures :
       OrdClientMessage(c, bytes, failing)
  \/ \E bytes \in LiveContents, failing \in SendFailures, ackThrows \in BOOLEAN :
       OrdQueueDeliver(bytes, failing, ackThrows, FALSE)

SpecOrder == Init /\ [][NextOrder]_vars

\* ------------------------------------------------------------------------
\* The life of the process: module load, start(), SIGINT
\* ------------------------------------------------------------------------

Logged(e) == e \in Range(lifeLog)

\* position of the first e in the log, 0 when it is not there
Pos(e) ==
  IF Logged(e) THEN CHOOSE i \in 1..Len(lifeLog) :
                      lifeLog[i] = e /\ \A j \in 1..(i - 1) : lifeLog[j] # e
  ELSE 0

ExitCodeAlwaysZero(reason) == IF reason = "startup-failure" THEN 0 ELSE 0

\* process.exit(1) in the catch of start(), process.exit(0) in the callback
\* of wss.close; a SIGINT without a listener ends a Node process with 128 + 2
ExitCodeFor(reason) ==
  CASE reason = "startup-failure" -> 1
    [] reason = "shutdown"        -> 0
    [] OTHER                      -> 130

Exit(reason, events) ==
  /\ lpc' = "exited"
  /\ lifeLog' = lifeLog \o events
  /\ exitCode' = ExitCodeFor(reason)
  /\ lclients' = 0

Step(to, events) ==
  /\ lpc' = to
  /\ lifeLog' = lifeLog \o events
  /\ UNCHANGED <<exitCode, lclients>>

\* wss listens from the moment the module is loaded; its 'connection'
\* handler adds the client to wsClients
Accept ==
  /\ exitCode = NotExited
  /\ ~Logged("server-closing")
  /\ lclients < MaxLifeClients
  /\ lclients' = lclients + 1
  /\ lifeLog' = IF Logged("client-accepted") THEN lifeLog
                ELSE Append(lifeLog, "client-accepted")
  /\ UNCHANGED <<lpc, exitCode, notLife>>

\* 'close' of a client
Leave ==
  /\ exitCode = NotExited
  /\ lclients > 0
  /\ lclients' = lclients - 1
  /\ UNCHANGED <<lpc, lifeLog, exitCode, notLife>>

\* await connectToRabbit() returns the connection and the channel
StartConnected ==
  /\ lpc = "connecting"
  /\ Step("asserting", <<"queue-connected">>)
  /\ UNCHANGED notLife

\* connectToRabbit() throws after its last attempt: catch, process.exit(1)
StartConnectFails ==
  /\ lpc = "connecting"
  /\ Exit("startup-failure", <<"connect-failed">>)
  /\ UNCHANGED notLife

\* consumeQueue: await channel.assertQueue(queue, { durable: true })
StartAsserted ==
  /\ lpc = "asserting"
  /\ Step("consuming", <<"queue-declared-durable">>)
  /\ UNCHANGED notLife

StartAssertFails ==
  /\ lpc = "asserting"
  /\ Exit("startup-failure", <<"declare-failed">>)
  /\ UNCHANGED notLife

\* consumeQueue: await channel.consume(...) returns; start() goes on without
\* another await: setInterval, console.log, process.on('SIGINT')
StartConsuming ==
  /\ lpc = "consuming"
  /\ Step("running", <<"consumer-registered", "monitor-started",
                       "ready-logged", "handler-installed">>)
  /\ UNCHANGED notLife

StartConsumeFails ==
  /\ lpc = "consuming"
  /\ Exit("startup-failure", <<"consume-failed">>)
  /\ UNCHANGED notLife

\* SIGINT reaches the process: the listener of start() runs when it is
\* installed, otherwise the signal ends the process
Sigint ==
  /\ exitCode = NotExited
  /\ ~Logged("sigint")
  /\ IF Logged("handler-installed")
       THEN Step("closingChannel", <<"sigint">>)
       ELSE Exit("signal", <<"sigint">>)
  /\ UNCHANGED notLife

\* try { await channel.close(); } catch (e) {}
ChannelClose(throws) ==
  /\ lpc = "closingChannel"
  /\ Step("closingConnection",
          <<IF throws THEN "channel-close-failed" ELSE "channel-closed">>)
  /\ UNCHANGED notLife

\* try { await connection.close(); } catch (e) {} and then wss.close(cb)
ConnectionClose(throws) ==
  /\ lpc = "closingConnection"
  /\ Step("closingServer",
          <<IF throws THEN "connection-close-failed" ELSE "connection-closed",
            "server-closing">>)
  /\ UNCHANGED notLife

\* The callback of setInterval runs every 30 s from the moment the monitor is
\* started until the process exits: start() keeps no handle of the interval
\* and nothing calls clearInterval.  The log keeps the first run and the
\* first run after the SIGINT handler began.
LifeTick ==
  /\ exitCode = NotExited
  /\ Logged("monitor-started")
  /\ LET e == IF Logged("sigint") THEN "tick-after-sigint" ELSE "tick" IN
     lifeLog' = IF Logged(e) THEN lifeLog ELSE Append(lifeLog, e)
  /\ UNCHANGED <<lpc, exitCode, lclients, notLife>>

\* the callback of wss.close: process.exit(0)
ServerClosed ==
  /\ lpc = "closingServer"
  /\ Exit("shutdown", <<"server-closed">>)
  /\ UNCHANGED notLife

InitLifecycle == IdleItemVars /\ IdleRcVars /\ ConnectedVars /\ InitRelayVars /\ InitLifeVars /\ IdleFeVars

NextLifecycle ==
  \/ Accept
  \/ Leave
  \/ StartConnected
  \/ StartConnectFails
  \/ StartAsserted
  \/ StartAssertFails
  \/ StartConsuming
  \/ StartConsumeFails
  \/ Sigint
  \/ LifeTick
  \/ \E throws \in BOOLEAN : ChannelClose(throws)
  \/ \E throws \in BOOLEAN : ConnectionClose(throws)
  \/ ServerClosed

SpecLifecycle == InitLifecycle /\ [][NextLifecycle]_vars

\* ------------------------------------------------------------------------
\* A front-end component (ItemList.vue, App.jsx, the AngularJS controller)
\* and ItemController::share of the backend
\* ------------------------------------------------------------------------

Frameworks == {"vue", "react", "angular"}

ItemWithId(id) == JObj(<<[k |-> "id", v |-> id]>>)

\* JSON.stringify({ action: 'share_item', item })
ShareItemMessage(item) ==
  JObj(<<[k |-> "action", v |-> JStr("share_item")], [k |-> "item", v |-> item]>>)

\* request bodies of POST /api/share
ItemBody(item) == JObj(<<[k |-> "item", v |-> item]>>)
UrlBody        == JObj(<<[k |-> "url", v |-> JStr("http://u")]>>)
ImageBody      == JObj(<<[k |-> "image_base64", v |-> JStr("data:image/png")]>>)

\* both fields, and neither
BothBody       == JObj(<<[k |-> "image_base64", v |-> JStr("data:image/png")],
                         [k |-> "url", v |-> JStr("http://u")]>>)
EmptyBody      == JObj(<<>>)

ProducerBodies == {UrlBody, ImageBody, BothBody, EmptyBody}

\* what ItemController::share publishes for a url
UrlPayload(url) ==
  JObj(<<[k |-> "type", v |-> JStr("url")], [k |-> "url", v |-> url]>>)

ImagePayload(img) ==
  JObj(<<[k |-> "type", v |-> JStr("base64")], [k |-> "image_base64", v |-> img]>>)

\* texts a front-end receives from the relay: peer messages as they were
\* sent, queue messages wrapped by the relay
IncomingTexts ==
  { JSONStringify(ShareItemMessage(ItemWithId(JNum(7)))),
    JSONStringify(ShareItemMessage(ItemWithId(JStr("7")))),
    JSONStringify(WrapRealtime(ShareItemMessage(ItemWithId(JNum(3))))),
    JSONStringify(WrapRealtime(ShareItemMessage(ItemWithId(JStr("abc"))))),
    JSONStringify(WrapRealtime(UrlPayload(JStr("http://u")))),
    NotJsonText }

\* the lists GET /api/items may have put on the screen: no id twice
InitialLists ==
  { <<>>, <<ItemWithId(JNum(7))>>, <<ItemWithId(JNum(7)), ItemWithId(JNum(3))>> }

InitFeVars ==
  /\ framework \in Frameworks
  /\ items \in InitialLists
  /\ selectedId = JNull
  /\ wsOpen = FALSE
  /\ published = <<>>
  /\ feLast = FeRec("init")

\* AngularJS: if (shared.id != null) { n = Number(shared.id);
\*            if (!Number.isNaN(n)) shared.id = n; }
NormalizeId(shared) ==
  LET id == Get(shared, "id")
      n  == ToNumber(id) IN
  IF shared.t = "obj" /\ id.t \notin {"null", "undef"} /\ ~n.nan
  THEN JObj(SetMember(shared.kv, "id", JNum(n.n)))
  ELSE shared

\* the test of items.some(...): it.id === shared.id in Vue and React,
\* Number(it.id) === Number(shared.id) in AngularJS
SameId(fw, a, b) ==
  IF fw = "angular" THEN NumberEq(a, b) ELSE StrictEq(a, b)

\* handleIncomingMessage(raw) / handleIncoming(raw)
HandleIncomingMessage(fw, raw, its, sel) ==
  LET p == JSONParse(raw) IN
  IF ~p.ok
  THEN [items |-> its, selectedId |-> sel, shared |-> JUndef, handled |-> FALSE]
  ELSE
    LET parsed  == p.val
        payload == IF /\ Truthy(parsed)
                      /\ Truthy(Get(parsed, "source"))
                      /\ Truthy(Get(parsed, "payload"))
                   THEN Get(parsed, "payload")
                   ELSE parsed
    IN
    IF /\ Truthy(payload)
       /\ StrictEq(Get(payload, "action"), JStr("share_item"))
       /\ Truthy(Get(payload, "item"))
    THEN
      LET shared == IF fw = "angular" THEN NormalizeId(Get(payload, "item"))
                    ELSE Get(payload, "item")
          exists == \E i \in 1..Len(its) :
                      SameId(fw, Get(its[i], "id"), Get(shared, "id"))
      IN [items      |-> IF exists THEN its ELSE <<shared>> \o its,
          selectedId |-> Get(shared, "id"),
          shared     |-> shared,
          handled    |-> TRUE]
    ELSE [items |-> its, selectedId |-> sel, shared |-> JUndef, handled |-> FALSE]

\* the request has neither url nor image_base64
BadRequest == 400
\* publishing threw
PublishFailed == 500
\* response()->json(['status' => 'ok'])
Ok == 200

\* $channel->queue_declare('shared_items', false, true, false, false) and
\* new AMQPMessage($msgBody, ['delivery_mode' => 2]): how a payload is
\* published; closeThrows says that $channel->close() or
\* $connection->close() throws after basic_publish, inside the same try
Publish(payload, brokerUp, closeThrows) ==
  IF brokerUp
  THEN [status |-> IF closeThrows THEN PublishFailed ELSE Ok,
        publish |-> <<payload>>,
        queue |-> "shared_items", durable |-> TRUE, deliveryMode |-> 2]
  ELSE [status |-> PublishFailed, publish |-> <<>>,
        queue |-> "", durable |-> FALSE, deliveryMode |-> 0]

ShareControllerImageFirst(body, brokerUp, closeThrows) ==
  IF Has(body, "image_base64")
  THEN Publish(ImagePayload(Get(body, "image_base64")), brokerUp, closeThrows)
  ELSE IF Has(body, "url")
  THEN Publish(UrlPayload(Get(body, "url")), brokerUp, closeThrows)
  ELSE [status |-> BadRequest, publish |-> <<>>,
        queue |-> "", durable |-> FALSE, deliveryMode |-> 0]

\* ItemController::share: the status of the response and the body published
ShareController(body, brokerUp, closeThrows) ==
  IF Has(body, "url")
  THEN Publish(UrlPayload(Get(body, "url")), brokerUp, closeThrows)
  ELSE IF Has(body, "image_base64")
  THEN Publish(ImagePayload(Get(body, "image_base64")), brokerUp, closeThrows)
  ELSE [status |-> BadRequest, publish |-> <<>>,
        queue |-> "", durable |-> FALSE, deliveryMode |-> 0]

\* the record of a call of POST /api/share
ShareRec(op, item, body, brokerUp, closeThrows, r) ==
  [FeRec(op) EXCEPT !.via = "http", !.item = item, !.body = body,
                    !.status = r.status, !.brokerUp = brokerUp,
                    !.closeThrows = closeThrows,
                    !.publishedBefore = Len(published),
                    !.queue = r.queue, !.durable = r.durable,
                    !.deliveryMode = r.deliveryMode]

\* 'open' of the socket
WsOpen ==
  /\ ~wsOpen
  /\ wsOpen' = TRUE
  /\ feLast' = FeRec("open")
  /\ UNCHANGED <<framework, items, selectedId, published, notFe>>

\* 'close' of the socket
WsClose ==
  /\ wsOpen
  /\ wsOpen' = FALSE
  /\ feLast' = FeRec("close")
  /\ UNCHANGED <<framework, items, selectedId, published, notFe>>

\* 'message' of the socket
Incoming(raw) ==
  /\ wsOpen
  /\ Len(items) < MaxItems
  /\ LET h == HandleIncomingMessage(framework, raw, items, selectedId) IN
     /\ items' = h.items
     /\ selectedId' = h.selectedId
     /\ feLast' = [FeRec("message") EXCEPT !.raw = raw, !.before = items,
                                           !.shared = h.shared,
                                           !.handled = h.handled]
  /\ UNCHANGED <<framework, wsOpen, published, notFe>>

\* share(item) on a click: selectedId = item.id, then sendSharedItem(item):
\* over the socket when it is open and send does not throw, else
\* POST /api/share { item }, whose failure is only logged
Share(i, sendThrows, brokerUp, closeThrows) ==
  /\ i \in 1..Len(items)
  /\ sendThrows => wsOpen
  /\ closeThrows => brokerUp
  /\ Len(published) < MaxPublished
  /\ selectedId' = Get(items[i], "id")
  /\ IF wsOpen /\ ~sendThrows
     THEN /\ feLast' = [FeRec("share") EXCEPT !.via = "ws", !.item = items[i],
                                             !.publishedBefore = Len(published)]
          /\ UNCHANGED published
     ELSE LET r == ShareController(ItemBody(items[i]), brokerUp, closeThrows) IN
          /\ published' = published \o r.publish
          /\ feLast' = ShareRec("share", items[i], ItemBody(items[i]),
                                brokerUp, closeThrows, r)
  /\ UNCHANGED <<framework, items, wsOpen, notFe>>

\* another producer calls POST /api/share
ApiShare(body, brokerUp, closeThrows) ==
  /\ Len(published) < MaxPublished
  /\ closeThrows => brokerUp
  /\ LET r == ShareController(body, brokerUp, closeThrows) IN
     /\ published' = published \o r.publish
     /\ feLast' = ShareRec("api", body, body, brokerUp, closeThrows, r)
  /\ UNCHANGED <<framework, items, selectedId, wsOpen, notFe>>

InitFrontend == IdleItemVars /\ IdleRcVars /\ ConnectedVars /\ InitRelayVars /\ InitLifeVars /\ InitFeVars

NextFrontend ==
  \/ WsOpen
  \/ WsClose
  \/ \E raw \in IncomingTexts : Incoming(raw)
  \/ \E i \in 1..MaxItems, sendThrows, brokerUp, closeThrows \in BOOLEAN :
       Share(i, sendThrows, brokerUp, closeThrows)
  \/ \E body \in ProducerBodies, brokerUp, closeThrows \in BOOLEAN :
       ApiShare(body, brokerUp, closeThrows)

SpecFrontend == InitFrontend /\ [][NextFrontend]_vars

\* ------------------------------------------------------------------------
\* The WebSocket connection of a front-end component: connectWebSocket,
\* scheduleReconnect, the listeners of the socket, the teardown
\* ------------------------------------------------------------------------

ReconnectDelayUncapped(d) == d * 2

\* Math.min(reconnectDelay * 2, MAX_RECONNECT_DELAY)
NextReconnectDelay(d) == Min(d * 2, MaxReconnectDelay)

SchedulesReconnectOnError(event) == event \in {"close", "ctor-failed", "error"}

\* the handlers that call scheduleReconnect(): the 'close' listener and the
\* catch around new WebSocket(...); the 'error' listener only logs
SchedulesReconnect(event) == event \in {"close", "ctor-failed"}

\* what a handler does to the delay and the timers: scheduleReconnect() when
\* it is one that calls it; pending is the sequence of timers at that moment
AfterEvent(event, sk, pending) ==
  IF SchedulesReconnect(event)
  THEN /\ timers' = Append(pending, reconnectDelay)
       /\ reconnectDelay' = NextReconnectDelay(reconnectDelay)
       /\ fails' = fails + 1
       /\ rcLast' = [op |-> event, sock |-> sk, timersBefore |-> Len(pending),
                     waited |-> reconnectDelay, k |-> fails + 1]
  ELSE /\ timers' = pending
       /\ rcLast' = [RcRec(event) EXCEPT !.sock = sk, !.timersBefore = Len(pending)]
       /\ UNCHANGED <<reconnectDelay, fails>>

\* connectWebSocket(): new WebSocket(WS_URL) throws, or the socket is kept
\* in ws and gets its listeners
ConnectWebSocket(throws, pending) ==
  /\ nsock < MaxSockets
  /\ nsock' = nsock + 1
  /\ IF throws
     THEN /\ sockState' = [sockState EXCEPT ![nsock + 1] = "FAILED"]
          /\ AfterEvent("ctor-failed", nsock + 1, pending)
          /\ UNCHANGED cur
     ELSE /\ sockState' = [sockState EXCEPT ![nsock + 1] = "CONNECTING"]
          /\ cur' = nsock + 1
          /\ timers' = pending
          /\ rcLast' = [RcRec("created") EXCEPT !.sock = nsock + 1,
                                                !.timersBefore = Len(pending)]
          /\ UNCHANGED <<reconnectDelay, fails>>

\* the component is set up: connectWebSocket()
Mount(throws) ==
  /\ mounted = "setup"
  /\ mounted' = "mounted"
  /\ ConnectWebSocket(throws, timers)
  /\ UNCHANGED <<app, wsConnected, tornAt, notRc>>

\* 'open' of a socket
SockOpen(sk) ==
  /\ sockState[sk] = "CONNECTING"
  /\ sockState' = [sockState EXCEPT ![sk] = "OPEN"]
  /\ wsConnected' = TRUE
  /\ reconnectDelay' = InitialReconnectDelay
  /\ fails' = 0
  /\ rcLast' = [RcRec("open") EXCEPT !.sock = sk, !.timersBefore = Len(timers)]
  /\ UNCHANGED <<app, mounted, nsock, cur, timers, tornAt, notRc>>

\* 'error' of a socket: the connection failed or broke, 'close' follows
SockError(sk) ==
  /\ sockState[sk] \in {"CONNECTING", "OPEN", "CLOSING"}
  /\ AfterEvent("error", sk, timers)
  /\ UNCHANGED <<app, mounted, sockState, nsock, cur, wsConnected, tornAt, notRc>>

\* 'close' of a socket: it failed to connect, the peer or the network ended
\* it, or close() was called on it
SockClose(sk) ==
  /\ sockState[sk] \in {"CONNECTING", "OPEN", "CLOSING"}
  /\ sockState' = [sockState EXCEPT ![sk] = "CLOSED"]
  /\ wsConnected' = FALSE
  /\ AfterEvent("close", sk, timers)
  /\ UNCHANGED <<app, mounted, nsock, cur, tornAt, notRc>>

RemoveAt(q, i) == [j \in 1..(Len(q) - 1) |-> IF j < i THEN q[j] ELSE q[j + 1]]

\* a timer of scheduleReconnect fires: connectWebSocket()
TimerFires(i, throws) ==
  /\ i \in 1..Len(timers)
  /\ ConnectWebSocket(throws, RemoveAt(timers, i))
  /\ UNCHANGED <<app, mounted, wsConnected, tornAt, notRc>>

\* onBeforeUnmount: closeWebSocket() in Vue, the cleanup of useEffect in
\* React: if (ws) { ws.close(); ws = null; } and, in Vue, wsConnected = false.
\* No listener is removed and no timer is cleared.
Teardown ==
  /\ mounted = "mounted"
  /\ app \in {"vue", "react"}
  /\ mounted' = "unmounted"
  /\ tornAt' = nsock
  /\ IF cur # 0
     THEN /\ sockState' = [sockState EXCEPT ![cur] =
                             IF @ \in {"CONNECTING", "OPEN"} THEN "CLOSING" ELSE @]
          /\ cur' = 0
          /\ wsConnected' = IF app = "vue" THEN FALSE ELSE wsConnected
     ELSE UNCHANGED <<sockState, cur, wsConnected>>
  /\ rcLast' = [RcRec("teardown") EXCEPT !.sock = cur, !.timersBefore = Len(timers)]
  /\ UNCHANGED <<app, nsock, reconnectDelay, timers, fails, notRc>>

InitReconnect ==
  IdleItemVars /\ InitRcVars /\ ConnectedVars /\ InitRelayVars /\ InitLifeVars /\ IdleFeVars

NextReconnect ==
  \/ \E throws \in BOOLEAN : Mount(throws)
  \/ \E sk \in Sockets : SockOpen(sk)
  \/ \E sk \in Sockets : SockError(sk)
  \/ \E sk \in Sockets : SockClose(sk)
  \/ \E i \in 1..MaxSockets, throws \in BOOLEAN : TimerFires(i, throws)
  \/ Teardown

SpecReconnect == InitReconnect /\ [][NextReconnect]_vars

\* ------------------------------------------------------------------------
\* ItemController::getAll (SpecItems)
\* ------------------------------------------------------------------------

\* values of the query parameter refresh; "absent" stands for the default 0
RefreshValues == {"absent", "0", "1", "false"}

\* if ($refresh): PHP takes 0, "" and "0" for false, any other string for true
PhpTruthy(v) == v \notin {"absent", "", "0"}

RemoteIds == 1..MaxRemoteId

\* the 'id' fields of the list decoded from the answer of the public API
RemoteLists ==
  {<<>>} \cup {<<a>> : a \in RemoteIds}
         \cup {<<a, b>> : a \in RemoteIds, b \in RemoteIds}

\* id INTEGER PRIMARY KEY: SQLite gives a new row the largest id plus one
NextId(c) ==
  IF c = {} THEN 1
  ELSE (CHOOSE r \in c : \A o \in c : o.id <= r.id).id + 1

\* INSERT OR IGNORE: remote_id is UNIQUE
Insert(c, rid) ==
  IF \E r \in c : r.remote_id = rid THEN c
  ELSE c \cup {[id |-> NextId(c), remote_id |-> rid]}

\* foreach ($data as $item) $insert->execute(...)
RECURSIVE InsertAll(_, _)
InsertAll(c, list) ==
  IF list = <<>> THEN c
  ELSE InsertAll(Insert(c, Head(list)), Tail(list))

\* the rows of c by id, the smallest id first
RECURSIVE OrderById(_)
OrderById(c) ==
  IF c = {} THEN <<>>
  ELSE LET r == CHOOSE x \in c : \A o \in c : x.id <= o.id
       IN <<r>> \o OrderById(c \ {r})

Reverse(rows) == [i \in 1..Len(rows) |-> rows[Len(rows) + 1 - i]]

OrderByIdAsc(c) == OrderById(c)

\* SELECT ... FROM items ORDER BY id DESC
OrderByIdDesc(c) == Reverse(OrderById(c))

\* a request begun while another one is in progress: neither is alone
Overlapped(q) ==
  [p \in Requests |->
     IF p # q /\ reqs[p].st = "fetching"
     THEN [reqs[p] EXCEPT !.alone = FALSE]
     ELSE reqs[p]]

InProgress(q) == \E p \in Requests : p # q /\ reqs[p].st = "fetching"

\* getAll up to the request to the public API: the DELETE when refresh is
\* set, the first SELECT, and the answer when it finds rows; the request
\* takes the first free place of reqs
GetAllBegin(q, refresh) ==
  /\ reqs[q].st = "idle"
  /\ \A p \in Requests : p < q => reqs[p].st # "idle"
  /\ LET kept == IF PhpTruthy(refresh) THEN {} ELSE cache
         rows == OrderByIdDesc(kept)
         rec  == [ItRec("begin") EXCEPT
                    !.q = q, !.refresh = refresh, !.cacheBefore = kept,
                    !.alone = ~InProgress(q),
                    !.prevStatus = done.status, !.prevCount = done.count]
     IN
     /\ cache' = kept
     /\ IF rows # <<>>
        THEN /\ reqs' = Overlapped(q)
             /\ done' = [status |-> 200, count |-> Len(rows)]
             /\ itLast' = [rec EXCEPT !.op = "respond", !.status = 200,
                                      !.rows = rows]
        ELSE /\ reqs' = [Overlapped(q) EXCEPT ![q] =
                          [st |-> "fetching", refresh |-> refresh,
                           alone |-> ~InProgress(q)]]
             /\ itLast' = rec
             /\ UNCHANGED done
  /\ UNCHANGED notItems

\* the rest of getAll: the answer of the public API arrives (ok, with the
\* ids of its elements) or $client->get / json_decode / foreach fails and
\* the framework answers 500; then the INSERTs, the second SELECT, the
\* answer. A request that went to the public API found no row, and when it
\* was alone the answer given last is still the one given before it began
GetAllFinish(q, ok, list) ==
  /\ reqs[q].st = "fetching"
  /\ ~ok => list = <<>>
  /\ LET filled == IF ok THEN InsertAll(cache, list) ELSE cache
         rows   == IF ok THEN OrderByIdDesc(filled) ELSE <<>>
         status == IF ok THEN 200 ELSE 500
     IN
     /\ cache' = filled
     /\ reqs' = [reqs EXCEPT ![q] = IdleReq]
     /\ done' = [status |-> status, count |-> Len(rows)]
     /\ itLast' = [ItRec("respond") EXCEPT
                     !.q = q, !.refresh = reqs[q].refresh,
                     !.status = status, !.rows = rows, !.contacted = TRUE,
                     !.fetched = Range(list), !.alone = reqs[q].alone,
                     !.prevStatus = IF reqs[q].alone THEN done.status ELSE 0,
                     !.prevCount = IF reqs[q].alone THEN done.count ELSE 0]
  /\ UNCHANGED notItems

InitItems ==
  IdleItemVars /\ IdleRcVars /\ ConnectedVars /\ InitRelayVars /\ InitLifeVars
    /\ IdleFeVars

NextItems ==
  \/ \E q \in Requests, refresh \in RefreshValues : GetAllBegin(q, refresh)
  \/ \E q \in Requests, ok \in BOOLEAN, list \in RemoteLists :
       GetAllFinish(q, ok, list)

SpecItems == InitItems /\ [][NextItems]_vars

\* ------------------------------------------------------------------------
\* Properties
\* ------------------------------------------------------------------------

\* the handler that ran last called broadcast (a client message that parsed,
\* or a queue delivery)
BroadcastRan == last.op \in {"message", "queue"} /\ last.called

\* the connections of the registry snapshot that are OPEN
OpenInSnapshot == {c \in Range(last.snapshot) : readyState[c] = "OPEN"}

\* the text of { source: 'realtime', payload } around the text of a payload
EnvelopeText(payloadText) ==
  <<LB, StrTok("source"), Colon, StrTok("realtime"), Comma,
    StrTok("payload"), Colon>> \o payloadText \o <<RB>>

\* C1: for every message delivered to the consumer callback, exactly one of
\* ack and nack is successfully issued, whatever parsing, broadcast, ack and
\* nack do: never both, never neither.
C1_ExactlyOneAckOrNack ==
  last.op = "queue" => (last.acked /\ ~last.nacked) \/ (~last.acked /\ last.nacked)

\* C2: if send throws for one registered connection during broadcast, every
\* other OPEN connection of the snapshot still receives the message and no
\* exception leaves broadcast.
C2_SendFailureIsolated ==
  BroadcastRan =>
    /\ ~last.threw
    /\ \A c \in OpenInSnapshot \ last.failing : last.sent[c] = 1

\* C3: during broadcast a registered connection that is not OPEN receives
\* nothing, and every registered OPEN connection receives the message once,
\* wherever the connection that is not OPEN stands in the registry.  (A
\* send that throws ends the loop: that case is C2's; a connection that is
\* not OPEN receives nothing in that case either.)
C3_NonOpenSkipped ==
  BroadcastRan =>
    /\ \A c \in Conns : readyState[c] # "OPEN" => last.sent[c] = 0
    /\ last.failing = {} => \A c \in OpenInSnapshot : last.sent[c] = 1

\* C3 witness: a CLOSING connection stands before an OPEN one in the
\* snapshot; the OPEN one got the message, the CLOSING one got nothing
C3_Witness ==
  /\ BroadcastRan
  /\ Len(last.snapshot) >= 2
  /\ readyState[last.snapshot[1]] = "CLOSING"
  /\ last.sent[last.snapshot[1]] = 0
  /\ readyState[last.snapshot[2]] = "OPEN"
  /\ last.sent[last.snapshot[2]] = 1

\* C4: when every connection of the registry is OPEN (and every send
\* returns), one broadcast delivers the message exactly once to each
\* registered connection and to no connection outside the registry; in any
\* case no connection gets the message twice and none outside the registry
\* gets it.
C4_ExactlyOnceToEach ==
  BroadcastRan =>
    /\ \A c \in Conns : last.sent[c] <= 1
    /\ \A c \in Conns \ Range(last.snapshot) : last.sent[c] = 0
    /\ (OpenInSnapshot = Range(last.snapshot) /\ last.failing = {})
         => \A c \in Range(last.snapshot) : last.sent[c] = 1

\* C4 witness: a registry of at least two connections, all OPEN, each of
\* which got the message once
C4_Witness ==
  /\ BroadcastRan
  /\ Len(last.snapshot) >= 2
  /\ OpenInSnapshot = Range(last.snapshot)
  /\ \A c \in Range(last.snapshot) : last.sent[c] = 1

\* C5 (as stated): when every attempt fails, exactly MAX_RETRIES attempts are
\* made before the error is propagated, the attempt counter never exceeds
\* MAX_RETRIES, and no sleep follows the final failed attempt.
C5_ExactlyMaxRetriesAttempts ==
  /\ attempt <= maxRetries
  /\ cpc = "failed" => attempt = maxRetries /\ sleeps = attempt - 1

\* C5 (amended): when every attempt fails, exactly max(1, MAX_RETRIES)
\* attempts are made before the error is propagated, the attempt counter
\* never exceeds max(1, MAX_RETRIES), and no sleep follows the final failed
\* attempt (a sleep follows each of the earlier ones).
C5_AttemptsMaxOneOrMaxRetries ==
  /\ attempt <= Max(1, maxRetries)
  /\ cpc = "failed" => attempt = Max(1, maxRetries) /\ sleeps = attempt - 1
  /\ cpc \in {"try", "sleeping"} => attempt < Max(1, maxRetries)

\* C5 witness: the retry budget of a configuration with several retries is
\* used up and the error is propagated
C5_Witness ==
  cpc = "failed" /\ maxRetries >= 2 /\ attempt = maxRetries /\ sleeps = attempt - 1

\* C6: the wait after the N-th consecutive failed attempt is
\* min(initial * 2^(N-1), 30000) + jitter with jitter an integer of [0, 300);
\* the base part of every wait, the first included, is at most 30000.
C6_WaitFormula ==
  cpc = "sleeping" =>
    /\ jitter \in 0..(JitterRange - 1)
    /\ waitMs = Min(initialDelay * Pow2(attempt - 1), DelayCeiling) + jitter
    /\ waitMs - jitter <= DelayCeiling

\* C7: on every heartbeat tick every connection of the registry is
\* processed: one whose flag is false is terminated, one whose flag is true
\* has the flag cleared and is pinged, however many others are dead.
C7_EveryConnectionProcessed ==
  last.op = "tick" =>
    \A c \in Range(last.snapshot) :
      IF c \in last.deadBefore
      THEN c \in last.terminated
      ELSE c \in last.pinged /\ ~isAlive[c]

\* C8: a connection that did not answer the ping (its flag is still false
\* when the next tick starts) is evicted by that tick, for any number of
\* silent connections: after the tick it is no longer OPEN and its removal
\* from the registry is under way.
C8_SilentConnectionEvicted ==
  last.op = "tick" =>
    \A c \in last.deadBefore : readyState[c] # "OPEN"

\* C9: for a queue message whose content is valid JSON p, the text that is
\* broadcast is the envelope {source: "realtime", payload: p}: it reads back
\* as an object of the two members source and payload, payload being p, and
\* it is never the text of p alone.
C9_QueueJsonWrapped ==
  LET p == JSONParse(Utf8ToString(last.text)) IN
  (last.op = "queue" /\ p.ok) =>
    /\ last.called
    /\ last.msg = EnvelopeText(JSONStringify(p.val))
    /\ last.msg # JSONStringify(p.val)
    /\ LET back == JSONParse(last.msg) IN
       /\ back.ok
       /\ Len(back.val.kv) = 2
       /\ back.val.kv[1] = [k |-> "source", v |-> JStr("realtime")]
       /\ back.val.kv[2] = [k |-> "payload", v |-> p.val]

\* C9 witness: {"action":"share_item","item":{"id":7}} came from the queue
\* and a client received
\* {"source":"realtime","payload":{"action":"share_item","item":{"id":7}}}
C9_Witness ==
  /\ last.op = "queue"
  /\ last.text = ShareItemText(7)
  /\ last.msg = <<LB, StrTok("source"), Colon, StrTok("realtime"), Comma,
                  StrTok("payload"), Colon>> \o ShareItemText(7) \o <<RB>>
  /\ \E c \in Conns : last.sent[c] = 1

\* C10: for a queue message whose content is not valid JSON, the text that
\* is broadcast is {source: "realtime", payload: {raw: <content as string>}}
\* and the message is acknowledged: the failed parse neither drops the
\* message nor leads to a nack.  (A nack is issued only when a send or the
\* ack itself throws, which is the case of any message.)
C10_NonJsonRawAndAcked ==
  LET content == Utf8ToString(last.text) IN
  (last.op = "queue" /\ ~JSONParse(content).ok) =>
    /\ last.called
    /\ last.msg = EnvelopeText(<<LB, StrTok("raw"), Colon, TxtTok(content), RB>>)
    /\ ~last.threw => last.ackCalls = 1
    /\ (~last.threw /\ last.acked) => last.nackCalls = 0
    /\ last.nackCalls = 1 => last.threw \/ (last.ackCalls = 1 /\ ~last.acked)
    /\ last.failing = {} => last.ackCalls = 1

\* C10 witness: "not-json" came from the queue, a client received
\* {"source":"realtime","payload":{"raw":"not-json"}} and the message was
\* acknowledged, not nacked
C10_Witness ==
  /\ last.op = "queue"
  /\ last.text = NotJsonText
  /\ last.msg = <<LB, StrTok("source"), Colon, StrTok("realtime"), Comma,
                  StrTok("payload"), Colon, LB, StrTok("raw"), Colon,
                  TxtTok(<<Junk("not-json")>>), RB, RB>>
  /\ \E c \in Conns : last.sent[c] = 1
  /\ last.acked /\ ~last.nacked /\ last.nackCalls = 0

\* channel.ack was called and threw
AckThrew == last.ackCalls = 1 /\ ~last.acked

\* C11: the acknowledgment of a queue message is issued only after the
\* broadcast of that message was attempted on every connection of the
\* snapshot: every send precedes the ack, and every OPEN connection of the
\* snapshot had its send before the ack.
C11_AckAfterBroadcast ==
  last.op = "queue" =>
    \A i \in 1..Len(last.events) :
      last.events[i].e = "ack" =>
        /\ \A j \in 1..Len(last.events) : last.events[j].e = "send" => j < i
        /\ \A c \in OpenInSnapshot :
             \E j \in 1..(i - 1) : last.events[j] = Event("send", c)

\* C11 witness: two OPEN connections were sent the message, then the ack
\* was issued
C11_Witness ==
  /\ last.op = "queue"
  /\ Cardinality(OpenInSnapshot) >= 2
  /\ Len(last.events) = Cardinality(OpenInSnapshot) + 1
  /\ last.events[Len(last.events)] = Event("ack", 0)
  /\ last.acked

\* C12 (as stated): if any exception occurs while a queue message is
\* processed (parsing, broadcast or ack), the message is nacked with
\* requeue = false, is never acked, and no exception leaves the callback.
C12_AnyExceptionNacks ==
  (last.op = "queue" /\ (~last.parsed \/ last.threw \/ AckThrew)) =>
    last.nacked /\ ~last.requeue /\ ~last.acked /\ ~last.escaped

\* C12 (amended): if broadcast or channel.ack throws while a queue message
\* is processed, channel.nack is called once with requeue = false as the
\* last call, the message is not acked and no exception leaves the callback;
\* a content that fails to parse is no such exception: without a throw of
\* broadcast or ack the message is acked and nack is not called.  A message
\* is never both acked and nacked.
C12_BroadcastOrAckFailureNacks ==
  last.op = "queue" =>
    /\ ~last.escaped
    /\ ~(last.acked /\ last.nacked)
    /\ (last.threw \/ AckThrew) =>
         /\ last.nackCalls = 1 /\ ~last.requeue /\ ~last.acked
         /\ last.events[Len(last.events)] = Event("nack", 0)
    /\ ~(last.threw \/ AckThrew) => last.nackCalls = 0 /\ last.acked

\* C12 witness: channel.ack threw after a completed broadcast and the
\* message was nacked
C12_Witness ==
  /\ last.op = "queue"
  /\ ~last.threw /\ AckThrew
  /\ \E c \in Conns : last.sent[c] = 1
  /\ last.nacked /\ ~last.acked

\* C13: when a client sends a message that parses as JSON, the text that is
\* broadcast reads back as that same JSON value, without the {source,
\* payload} wrapper, the queue channel is not touched, and (every send
\* returning) every OPEN connection of the registry, the sender included,
\* receives it once; a message from the queue reaches the same connections
\* in the wrapped form.
C13_PeerRelayUnwrapped ==
  LET p == JSONParse(Utf8ToString(last.text)) IN
  /\ (last.op = "message" /\ p.ok) =>
       /\ last.called
       /\ JSONParse(last.msg) = p
       /\ last.msg # EnvelopeText(JSONStringify(p.val))
       /\ last.ackCalls = 0 /\ last.nackCalls = 0
       /\ \A i \in 1..Len(last.events) : last.events[i].e = "send"
       /\ last.conn \in OpenInSnapshot
       /\ last.failing = {} => \A c \in OpenInSnapshot : last.sent[c] = 1
  /\ (last.op = "queue" /\ p.ok) =>
       /\ last.msg = EnvelopeText(JSONStringify(p.val))
       /\ last.failing = {} => \A c \in OpenInSnapshot : last.sent[c] = 1

\* C13 witness: with two clients connected, one sent a share event written
\* with white space; both received the compact text of the same value
C13_Witness ==
  /\ last.op = "message"
  /\ last.text = ShareItemSpaced(3)
  /\ last.msg = ShareItemText(3)
  /\ Cardinality(OpenInSnapshot) >= 2
  /\ \A c \in OpenInSnapshot : last.sent[c] = 1
  /\ last.sent[last.conn] = 1

\* C14: when a client sends a message that does not parse as JSON, nothing
\* is broadcast to any connection, the registry is unchanged and no
\* exception leaves the message handler.
C14_MalformedClientMessageDropped ==
  (last.op = "message" /\ ~JSONParse(Utf8ToString(last.text)).ok) =>
    /\ ~last.called
    /\ last.msg = <<>>
    /\ last.events = <<>>
    /\ \A c \in Conns : last.sent[c] = 0
    /\ ~last.escaped
    /\ wsClients = last.snapshot

\* C14 witness: "not-json" arrived from a client while two clients were
\* connected, and nothing was sent
C14_Witness ==
  /\ last.op = "message"
  /\ last.text = NotJsonText
  /\ Cardinality(OpenInSnapshot) >= 2
  /\ \A c \in Conns : last.sent[c] = 0

\* what holds of the registry in every state
RegistryInvariant ==
  /\ Cardinality(Range(wsClients)) = Len(wsClients)
  /\ \A c \in Range(wsClients) : readyState[c] \in {"OPEN", "CLOSING"}
  /\ \A c \in Conns \ Range(wsClients) : readyState[c] = "CLOSED"
  /\ BroadcastRan =>
       /\ last.snapshot = wsClients
       /\ \A i \in 1..Len(last.events) :
            last.events[i].e = "send" =>
              /\ last.events[i].c \in Range(wsClients)
              /\ readyState[last.events[i].c] = "OPEN"
       /\ \A c \in Conns : last.sent[c] > 0 => c \in OpenInSnapshot
  /\ last.op = "tick" =>
       /\ last.snapshot = wsClients
       /\ (last.terminated \cup last.pinged) \subseteq Range(wsClients)

\* C15: at every moment each connection of the registry is OPEN or has a
\* pending close (it is CLOSING) whose 'close' event removes it; no
\* broadcast and no heartbeat tick ever touches a connection that was
\* removed from the registry: they run over a snapshot that equals the
\* registry, also when the tick itself terminates a connection.
C15_RegistryOpenOrClosing ==
  /\ []RegistryInvariant
  /\ \A c \in Conns :
       (readyState[c] = "CLOSING") ~> (c \notin Range(wsClients))

\* C15 witness: a heartbeat tick terminated a connection, which stays in
\* the registry as CLOSING next to an OPEN one until its 'close' event
C15_Witness ==
  /\ last.op = "tick"
  /\ \E c \in last.terminated : c \in Range(wsClients) /\ readyState[c] = "CLOSING"
  /\ \E c \in Range(wsClients) : readyState[c] = "OPEN"

\* --- the life of the process ---------------------------------------------

StartupSteps ==
  <<"queue-connected", "queue-declared-durable", "consumer-registered",
    "monitor-started", "ready-logged", "handler-installed">>

StartupFailures == {"connect-failed", "declare-failed", "consume-failed"}

\* a and b are both logged, a first
Before(a, b) == Logged(a) /\ Logged(b) /\ Pos(a) < Pos(b)

\* the steps of start() taken so far are the first ones of StartupSteps, in
\* that order
StartupInOrder ==
  \A i, j \in 1..Len(StartupSteps) :
    (i < j /\ Logged(StartupSteps[j])) => Before(StartupSteps[i], StartupSteps[j])

\* C16: startup goes queue connected, queue declared durable, consumer
\* registered, liveness monitor started; no client is accepted into the
\* registry before the queue connection and the liveness monitor are active;
\* readiness is logged only after all of them are active.
C16_StartupOrder ==
  /\ StartupInOrder
  /\ Logged("client-accepted") =>
       /\ Before("queue-connected", "client-accepted")
       /\ Before("monitor-started", "client-accepted")
  /\ lclients > 0 => Logged("queue-connected") /\ Logged("monitor-started")
  /\ Logged("ready-logged") =>
       /\ Before("queue-connected", "ready-logged")
       /\ Before("consumer-registered", "ready-logged")
       /\ Before("monitor-started", "ready-logged")

ShutdownStep(ok, failed) == IF Logged(ok) THEN Pos(ok) ELSE Pos(failed)

\* C17: once a termination signal was received, the process exits only with
\* code 0 and only after the channel, then the connection, then the server
\* were closed (each close attempted, whatever its outcome).
C17_SignalClosesInOrderAndExitsZero ==
  (Logged("sigint") /\ lpc = "exited") =>
    /\ exitCode = 0
    /\ Pos("sigint") < ShutdownStep("channel-closed", "channel-close-failed")
    /\ ShutdownStep("channel-closed", "channel-close-failed")
         < ShutdownStep("connection-closed", "connection-close-failed")
    /\ ShutdownStep("connection-closed", "connection-close-failed")
         < Pos("server-closing")
    /\ Pos("server-closing") < Pos("server-closed")

StartupFailed == \E e \in StartupFailures : Logged(e)

\* C18: when the queue connection is not established within the retry budget,
\* or declaring or consuming the queue fails, the process has exited with a
\* non-zero code, the liveness monitor was never started and the shutdown
\* handler never installed; the process exits with code 0 exactly at the end
\* of a shutdown run by the handler.
C18_StartupFailureExitsNonZero ==
  /\ StartupFailed =>
       /\ lpc = "exited"
       /\ exitCode # NotExited /\ exitCode # 0
       /\ ~Logged("monitor-started")
       /\ ~Logged("handler-installed")
       /\ ~Logged("ready-logged")
  /\ exitCode = 0 <=> Logged("server-closed")
  /\ Logged("server-closed") =>
       /\ ~StartupFailed
       /\ Before("handler-installed", "sigint")
       /\ Before("sigint", "server-closing")

\* declaring the queue worked and the consumer could not be registered, with
\* a client already connected when the process exited
C18_Witness ==
  /\ Logged("consume-failed")
  /\ Logged("queue-declared-durable")
  /\ Logged("client-accepted")
  /\ lpc = "exited"

\* --- the front-ends and POST /api/share ----------------------------------

\* C19: a share made while the socket is not open, or whose send throws, is
\* POSTed to /api/share; with the broker reachable the backend accepts the
\* request and publishes the item to shared_items, in a form the front-ends
\* handle as a share once the relay has wrapped it.
C19_FallbackPublishesShare ==
  (feLast.op = "share" /\ feLast.via = "http" /\ feLast.brokerUp) =>
    /\ feLast.status = Ok
    /\ Len(published) = feLast.publishedBefore + 1
    /\ LET m == published[Len(published)]
           h == HandleIncomingMessage(framework, JSONStringify(WrapRealtime(m)),
                                      <<>>, JNull) IN
       /\ h.handled
       /\ h.shared = feLast.item

\* the same id, as a value or read as a number
IdsEqual(a, b) == a = b \/ NumberEq(a, b)

NoDuplicateIds ==
  \A i, j \in 1..Len(items) :
    i # j => ~IdsEqual(Get(items[i], "id"), Get(items[j], "id"))

\* the item of a share_item message, wrapped or not
MessageItem(raw) ==
  LET v == JSONParse(raw).val
      inner == IF Has(v, "payload") THEN Get(v, "payload") ELSE v IN
  Get(inner, "item")

\* C20: a share_item message, wrapped or not, sets selectedId to the id of
\* the shared item and puts the item at the head of the list only when no
\* item of the list has that id; a list that started without duplicate ids
\* never holds two items with the same id, numeric strings included.
C20_ShareItemAddsOnce ==
  /\ NoDuplicateIds
  /\ (feLast.op = "message" /\ feLast.handled) =>
       LET id      == Get(MessageItem(feLast.raw), "id")
           present == \E i \in 1..Len(feLast.before) :
                        IdsEqual(Get(feLast.before[i], "id"), id) IN
       /\ IdsEqual(selectedId, id)
       /\ IF present THEN items = feLast.before
          ELSE /\ Len(items) = Len(feLast.before) + 1
               /\ IdsEqual(Get(items[1], "id"), id)
               /\ Tail(items) = feLast.before

\* --- order of the frames, no buffering ------------------------------------

RECURSIVE Increasing(_)
Increasing(q) ==
  Len(q) < 2 \/ (q[1] < q[2] /\ Increasing(Tail(q)))

\* C21: on every connection the frames of the broadcasts lie in the order in
\* which broadcast was invoked, whichever of the client and queue handlers
\* invoked it, and no broadcast is received twice.
C21_PerConnectionOrder ==
  \A c \in Conns : Increasing(outbox[c])

\* a connection holds the frame of a client broadcast and then that of a
\* queue broadcast, another connection joined in between and holds the
\* second only
C21_Witness ==
  /\ last.op = "queue"
  /\ \E c, d \in Conns :
       /\ outbox[c] = <<1, 2>>
       /\ joined[d] = 1
       /\ outbox[d] = <<2>>

\* C22: the liveness timer is cancelled on shutdown: once the SIGINT handler
\* has begun, the callback of the heartbeat interval does not run any more.
C22_NoTickAfterSignal == ~Logged("tick-after-sigint")

\* --- the WebSocket connection of a front-end -----------------------------

\* C23: the reconnect delay starts at 1000 ms, doubles with every scheduled
\* reconnect up to 30000 ms and is 1000 ms again when a socket opens: it lies
\* in [1000, 30000], and the k-th reconnect in a row without an open in
\* between waits min(1000 * 2^(k-1), 30000) ms.
C23_ReconnectBackoff ==
  /\ reconnectDelay >= 1000 /\ reconnectDelay <= 30000
  /\ \A i \in 1..Len(timers) : timers[i] >= 1000 /\ timers[i] <= 30000
  /\ rcLast.op = "init" => reconnectDelay = 1000
  /\ rcLast.op = "open" => reconnectDelay = 1000 /\ fails = 0
  /\ rcLast.waited > 0 =>
       /\ rcLast.k = fails
       /\ rcLast.waited = Min(1000 * Pow2(rcLast.k - 1), 30000)
       /\ reconnectDelay = Min(1000 * Pow2(rcLast.k), 30000)

\* the sixth reconnect in a row waits the ceiling, not 32000 ms
C23_Witness ==
  /\ rcLast.k = 6
  /\ rcLast.waited = 30000
  /\ timers = <<30000>>

\* C27: after the teardown of the component no WebSocket is constructed.
C27_NoSocketAfterTeardown ==
  mounted = "unmounted" => nsock = tornAt

Live == {sk \in Sockets : sockState[sk] \in {"CONNECTING", "OPEN"}}

\* C28: at most one reconnect timer is pending and at most one WebSocket is
\* connecting or open; a close and a failure of the constructor schedule
\* exactly one reconnect each, an error event schedules none.
C28_OneTimerOneSocket ==
  /\ Len(timers) <= 1
  /\ Cardinality(Live) <= 1
  /\ Len(timers) + Cardinality(Live) <= 1
  /\ rcLast.op \in {"close", "ctor-failed"} =>
       /\ Len(timers) = rcLast.timersBefore + 1
       /\ rcLast.waited > 0
  /\ rcLast.op = "error" =>
       /\ Len(timers) = rcLast.timersBefore
       /\ rcLast.waited = 0

\* an error event on a socket made by a reconnect, still connecting
C28_Witness ==
  /\ rcLast.op = "error"
  /\ rcLast.sock >= 2
  /\ sockState[rcLast.sock] = "CONNECTING"
  /\ timers = <<>>

\* --- POST /api/share ------------------------------------------------------

Grew == Len(published) - feLast.publishedBefore

Newest == published[Len(published)]

\* C24: without url and image_base64 the answer is 400 and nothing is
\* published; with url the message {type: 'url', url} is published, also when
\* image_base64 is there too; with image_base64 alone {type: 'base64',
\* image_base64}; when publishing fails the answer is 500; the answer is
\* {status: 'ok'} only after the message was published as persistent to the
\* durable queue shared_items.
C24_ShareEndpoint ==
  feLast.via = "http" =>
    LET b == feLast.body IN
    /\ (~Has(b, "url") /\ ~Has(b, "image_base64")) =>
         feLast.status = 400 /\ Grew = 0
    /\ (Has(b, "url") /\ feLast.brokerUp) =>
         Grew = 1 /\ Newest = UrlPayload(Get(b, "url"))
    /\ (~Has(b, "url") /\ Has(b, "image_base64") /\ feLast.brokerUp) =>
         Grew = 1 /\ Newest = ImagePayload(Get(b, "image_base64"))
    /\ ((Has(b, "url") \/ Has(b, "image_base64")) /\ ~feLast.brokerUp) =>
         feLast.status = 500 /\ Grew = 0
    /\ feLast.status = 200 =>
         /\ Grew = 1
         /\ feLast.queue = "shared_items"
         /\ feLast.durable
         /\ feLast.deliveryMode = 2
    /\ feLast.status \in {200, 400, 500}
    /\ (feLast.status = 500 /\ Grew = 1) => feLast.closeThrows

\* a request with both fields was answered ok
C24_Witness ==
  /\ feLast.op = "api"
  /\ feLast.body = BothBody
  /\ feLast.status = 200
  /\ published = <<UrlPayload(JStr("http://u"))>>

\* --- GET /api/items -------------------------------------------------------

Answered == itLast.op = "respond"

\* the rows of an answer have strictly descending ids
Descending(rows) ==
  \A i \in 1..Len(rows), j \in 1..Len(rows) : i < j => rows[i].id > rows[j].id

\* without refresh and with rows in the cache: the rows of the cache are
\* returned, ordered by id descending, and the public API is not contacted
ServedFromCache ==
  (Answered /\ ~PhpTruthy(itLast.refresh) /\ itLast.cacheBefore # {}) =>
    /\ ~itLast.contacted
    /\ itLast.status = 200
    /\ Range(itLast.rows) = itLast.cacheBefore
    /\ Len(itLast.rows) = Cardinality(itLast.cacheBefore)
    /\ Descending(itLast.rows)
    /\ cache = itLast.cacheBefore

\* with refresh the cache is cleared; with refresh or an empty cache the
\* public API is contacted, and when it answers the rows returned are the
\* rows of the cache after the inserts, which are the elements fetched when
\* no other request ran meanwhile
Refilled ==
  /\ (itLast.op \in {"begin", "respond"} /\ PhpTruthy(itLast.refresh)) =>
       itLast.cacheBefore = {}
  /\ itLast.op = "begin" => itLast.cacheBefore = {} /\ cache = {}
  /\ (Answered /\ (PhpTruthy(itLast.refresh) \/ itLast.cacheBefore = {})) =>
       /\ itLast.contacted
       /\ itLast.status \in {200, 500}
       /\ itLast.status = 200 =>
            /\ Range(itLast.rows) = cache
            /\ Descending(itLast.rows)
            /\ itLast.fetched \subseteq {r.remote_id : r \in cache}
            /\ itLast.alone =>
                 {r.remote_id : r \in cache} = itLast.fetched

\* the request began after the answer to the one before it and no other
\* request ran meanwhile
Following == Answered /\ itLast.alone /\ itLast.prevStatus # 0

\* C25 (as stated): a cache with rows is served without contacting the
\* public API, an empty cache or a refresh refills it from the public API,
\* and after a successful call a following call without refresh makes no
\* remote request.
C25_NoRemoteAfterSuccess ==
  /\ ServedFromCache
  /\ Refilled
  /\ (Following /\ itLast.prevStatus = 200 /\ ~PhpTruthy(itLast.refresh)) =>
       ~itLast.contacted

\* C25 (amended): a cache with rows is served without contacting the public
\* API, an empty cache or a refresh refills it from the public API, and
\* after a successful call that returned at least one row, a following call
\* without refresh makes no remote request and returns as many rows.
C25_NoRemoteAfterFilling ==
  /\ ServedFromCache
  /\ Refilled
  /\ (Following /\ itLast.prevStatus = 200 /\ itLast.prevCount > 0
        /\ ~PhpTruthy(itLast.refresh)) =>
       ~itLast.contacted /\ Len(itLast.rows) = itLast.prevCount

\* a call without refresh was served two cached rows after a successful call
C25_Witness ==
  /\ Following
  /\ itLast.prevStatus = 200
  /\ itLast.prevCount = 2
  /\ itLast.refresh = "0"
  /\ ~itLast.contacted
  /\ itLast.rows = <<[id |-> 2, remote_id |-> 1], [id |-> 1, remote_id |-> 2]>>

\* --- the liveness monitor and the connections that answer ------------------

\* C26: a connection that answers every ping with a pong before the next
\* tick is never terminated by the monitor: a registered connection whose
\* flag is false has been pinged with no pong since, and so has every
\* connection a tick terminates, wherever it stands in the registry and
\* whatever the other connections did.
C26_AnsweringConnectionSurvives ==
  /\ \A c \in Range(wsClients) : ~isAlive[c] => c \in awaitingPong
  /\ last.op = "tick" =>
       /\ last.terminated \subseteq awaitingPong
       /\ last.terminated \subseteq last.deadBefore

\* a tick terminated a silent connection standing in the registry after one
\* that had answered, which it pinged again
C26_Witness ==
  /\ last.op = "tick"
  /\ Len(wsClients) = 2
  /\ last.pinged = {wsClients[1]}
  /\ last.terminated = {wsClients[2]}
  /\ isAlive[wsClients[2]] = FALSE
  /\ readyState[wsClients[1]] = "OPEN"

\* --- no buffering of events -------------------------------------------------

\* the registry held no OPEN connection when the handler ran
NoOpenConnection == \A c \in Range(last.snapshot) : readyState[c] # "OPEN"

\* C29: the relay does not buffer: a queue message delivered while the
\* registry holds no OPEN connection is sent to nobody and acknowledged
\* (channel.ack is called once, and no nack unless the ack threw); a frame is
\* written only to the connections that are registered and OPEN when
\* broadcast runs; and a connection holds no frame of a broadcast invoked
\* before it was accepted.
C29_NoBuffering ==
  /\ (last.op = "queue" /\ NoOpenConnection) =>
       /\ \A c \in Conns : last.sent[c] = 0
       /\ ~last.threw
       /\ last.ackCalls = 1
       /\ last.acked \/ last.nackCalls = 1
       /\ last.acked => last.nackCalls = 0
  /\ (last.op \in {"message", "queue"} /\ last.called) =>
       \A c \in Conns :
         /\ last.sent[c] > 0 =>
              /\ c \in Range(last.snapshot)
              /\ readyState[c] = "OPEN"
              /\ outbox[c] # <<>>
              /\ outbox[c][Len(outbox[c])] = bcount
         /\ last.sent[c] = 0 => bcount \notin Range(outbox[c])
  /\ \A c \in Conns : \A n \in Range(outbox[c]) : joined[c] < n /\ n <= bcount

\* the second broadcast came from the queue while the only registered
\* connection, accepted after the first broadcast, was closing: it was
\* acknowledged, and the socket of the connection holds no frame
C29_Witness ==
  /\ last.op = "queue"
  /\ bcount = 2
  /\ last.acked
  /\ \E c \in Conns :
       /\ last.snapshot = <<c>>
       /\ readyState[c] = "CLOSING"
       /\ joined[c] = 1
       /\ outbox[c] = <<>>

====
